---------------------------- MODULE Spec2Model ----------------------------
(***************************************************************************)
(* A model of the GstLookup React component (src/src/GstLookup.jsx).       *)
(*                                                                         *)
(* State: the four useState slots (gstNumber, gstInfo, loading, error),    *)
(* the invocations of handleSubmit suspended at an await (pending), and a  *)
(* history variable (last) recording what the most recent submit, once it  *)
(* has completed, consumed.                                                *)
(*                                                                         *)
(* Granularity: one step is one run-to-completion segment of JavaScript    *)
(* (an event handler up to its first await, or the continuation of an      *)
(* await up to the next one).  The state updates queued inside one         *)
(* segment are committed together.                                         *)
(*                                                                         *)
(* Text: a string the code indexes or pattern-matches (the input, a gstin) *)
(* is a sequence of characters, each character a one-element TLA+ string;  *)
(* the character U+00DF is written "sz".  A text the code only passes on   *)
(* (a message, a response body) is a TLA+ string.                          *)
(***************************************************************************)
EXTENDS Integers, Sequences, FiniteSets, TLC

VARIABLES gstNumber, gstInfo, loading, error, pending, last

vars == <<gstNumber, gstInfo, loading, error, pending, last>>

---------------------------------------------------------------------------
(* Bounds of the model *)

\* The number of suspended handleSubmit invocations the model keeps.
MaxPending == 2

\* The number of leading positions of the sample GSTIN at which every probe
\* character is substituted.
MaxProbePos == 15

---------------------------------------------------------------------------
(* Characters and JavaScript string primitives *)

Digit == {"0", "1", "2", "3", "4", "5", "6", "7", "8", "9"}

UpperSeq == <<"A", "B", "C", "D", "E", "F", "G", "H", "I", "J", "K", "L", "M",
              "N", "O", "P", "Q", "R", "S", "T", "U", "V", "W", "X", "Y", "Z">>

LowerSeq == <<"a", "b", "c", "d", "e", "f", "g", "h", "i", "j", "k", "l", "m",
              "n", "o", "p", "q", "r", "s", "t", "u", "v", "w", "x", "y", "z">>

Upper == {UpperSeq[i] : i \in 1..Len(UpperSeq)}

\* String.prototype.toUpperCase on one character: a-z map to A-Z, U+00DF
\* ("sz") maps to the two characters SS, every other character to itself.
UpperOfChar(c) ==
    IF \E i \in 1..Len(LowerSeq) : LowerSeq[i] = c
      THEN <<UpperSeq[CHOOSE i \in 1..Len(LowerSeq) : LowerSeq[i] = c]>>
      ELSE IF c = "sz" THEN <<"S", "S">> ELSE <<c>>

toUpperCase_identity(s) == s

RECURSIVE toUpperCase(_)
toUpperCase(s) ==
    IF s = <<>> THEN <<>> ELSE UpperOfChar(Head(s)) \o toUpperCase(Tail(s))

Min(a, b) == IF a < b THEN a ELSE b

Max(a, b) == IF a > b THEN a ELSE b

substring_offByOne(s, start, end) ==
    LET a == Min(Max(start, 0), Len(s))
        b == Min(Max(end, 0), Len(s))
    IN  SubSeq(s, Min(a, b) + 1, Max(a, b) - 1)

\* String.prototype.substring(start, end): both indices clamped to
\* [0, length], swapped when start > end; the characters at the 0-based
\* positions start .. end-1.
substring(s, start, end) ==
    LET a == Min(Max(start, 0), Len(s))
        b == Min(Max(end, 0), Len(s))
    IN  SubSeq(s, Min(a, b) + 1, Max(a, b))

---------------------------------------------------------------------------
(* The validator, lines 23-24 *)

\* /^[0-9]{2}[A-Z]{5}[0-9]{4}[A-Z]{1}[1-9A-Z]{1}Z[0-9A-Z]{1}$/ as the
\* character class of each position.
gstPattern ==
    <<Digit, Digit,
      Upper, Upper, Upper, Upper, Upper,
      Digit, Digit, Digit, Digit,
      Upper,
      (Digit \ {"0"}) \cup Upper,
      {"Z"},
      Digit \cup Upper>>

\* gstPattern.test(s): anchored at both ends, so the length is that of the
\* pattern and every character is in its position's class.
gstPatternTest(s) ==
    /\ Len(s) = Len(gstPattern)
    /\ \A i \in 1..Len(gstPattern) : s[i] \in gstPattern[i]

ValidationFails_emptyOnly(s) == s = <<>>

\* !gstNumber || !gstPattern.test(gstNumber.toUpperCase())
ValidationFails(s) == s = <<>> \/ ~gstPatternTest(toUpperCase(s))

ValidationMessage ==
    "Please enter a valid 15-character GSTIN (e.g., 27ABCDE1234F1Z5)."

\* The GSTIN interpolated into the request URL, line 31.
RequestGstin(s) == toUpperCase(s)

---------------------------------------------------------------------------
(* The text field: what the user can have typed *)

\* maxLength="15" on the input element.
MaxLength == 15

SampleGstin ==
    <<"2", "7", "A", "B", "C", "D", "E", "1", "2", "3", "4", "F", "1", "Z", "5">>

ProbeChars == {"0", "q", "-"}

Replace(s, i, c) == [s EXCEPT ![i] = c]

Remove(s, i) == SubSeq(s, 1, i - 1) \o SubSeq(s, i + 1, Len(s))

\* The values of the text field the model tries: the empty field, the sample
\* and its lower-case spelling, prefixes of the sample, the sample with one
\* position replaced by a probe character, and 14-character strings that
\* hold one lower-case character (among them those that upper-case to 15).
InputCandidates ==
    {SubSeq(SampleGstin, 1, n) : n \in {0, 1, 14, 15}}
    \cup {<<"2", "7", "a", "b", "c", "d", "e", "1", "2", "3", "4", "f", "1", "z", "5">>}
    \cup {Replace(SampleGstin, i, c) :
            i \in 1..Min(MaxProbePos, Len(SampleGstin)), c \in ProbeChars}
    \cup {Replace(Remove(SampleGstin, 4), i, c) : i \in {3, 6}, c \in {"sz", "q"}}

Inputs == {s \in InputCandidates : Len(s) <= MaxLength}

---------------------------------------------------------------------------
(* JavaScript values read from a JSON body *)

Null == [t |-> "null"]

Undefined == [t |-> "undefined"]

JNum(n) == [t |-> "num", n |-> n]

JStr(s) == [t |-> "str", s |-> s]

JObj(f) == [t |-> "obj", f |-> f]

EmptyObject == JObj(<<>>)

\* What JSON.parse gives for a text that is not JSON: it throws SyntaxError.
Unparseable == [t |-> "syntaxerror"]

\* ToBoolean, as `if (v)` and `a || b` use it.
Truthy(v) ==
    CASE v.t = "obj" -> TRUE
      [] v.t = "num" -> v.n # 0
      [] v.t = "str" -> Len(v.s) > 0
      [] OTHER -> FALSE

\* v[k] and v.k on a value that is neither null nor undefined.
Get(v, k) == IF v.t = "obj" /\ k \in DOMAIN v.f THEN v.f[k] ELSE Undefined

\* v.k = x on an object.
Put(v, k, x) == JObj((k :> x) @@ v.f)

\* Object.keys(v).length
KeyCount(v) == Cardinality(DOMAIN v.f)

\* String(v), as `new Error(v)` applies it to its message.
StringOf(v) ==
    CASE v.t = "str" -> v.s
      [] v.t = "num" -> ToString(v.n)
      [] OTHER -> "[object Object]"

---------------------------------------------------------------------------
(* The remote service: the responses the model tries *)

Statuses == {200, 404, 500}

\* response.ok
Ok(status) == status >= 200 /\ status <= 299

ShortGstin == <<"2", "7", "A", "B">>

TwelveGstin == <<"2", "9", "P", "Q", "R", "S", "T", "5", "6", "7", "8", "K">>

\* Each body text with the value JSON.parse gives for it.
BodyTable ==
    << <<"", Unparseable>>,
       <<"Internal error", Unparseable>>,
       <<"null", Null>>,
       <<"0", JNum(0)>>,
       <<"7", JNum(7)>>,
       <<"\"Internal error\"", JStr("Internal error")>>,
       <<"{}", EmptyObject>>,
       <<"{\"message\":\"not found\"}", JObj([message |-> JStr("not found")])>>,
       <<"{\"error\":\"bad request\"}", JObj([error |-> JStr("bad request")])>>,
       <<"{\"message\":\"\",\"error\":\"quota exceeded\"}",
         JObj([message |-> JStr(""), error |-> JStr("quota exceeded")])>>,
       <<"{\"message\":\"forbidden\",\"error\":\"E403\"}",
         JObj([message |-> JStr("forbidden"), error |-> JStr("E403")])>>,
       <<"{\"message\":429}", JObj([message |-> JNum(429)])>>,
       <<"{\"data\":{\"gstin\":\"27ABCDE1234F1Z5\",\"legal_name\":\"Acme\"}}",
         JObj([data |-> JObj([gstin |-> JStr(SampleGstin),
                              legal_name |-> JStr("Acme")])])>>,
       <<"{\"data\":{\"gstin\":\"29PQRST5678K\",\"panNum\":\"stale\",\"status\":\"\"}}",
         JObj([data |-> JObj([gstin |-> JStr(TwelveGstin),
                              panNum |-> JStr("stale"),
                              status |-> JStr("")])])>>,
       <<"{\"data\":{\"gstin\":\"27AB\",\"type\":null}}",
         JObj([data |-> JObj([gstin |-> JStr(ShortGstin), type |-> Null])])>>,
       <<"{\"data\":{\"gstin\":27}}", JObj([data |-> JObj([gstin |-> JNum(27)])])>>,
       <<"{\"data\":{}}", JObj([data |-> EmptyObject])>>,
       <<"{\"data\":null}", JObj([data |-> Null])>>,
       <<"{\"gstin\":\"27ABCDE1234F1Z5\",\"legal_name\":\"Acme\"}",
         JObj([gstin |-> JStr(SampleGstin), legal_name |-> JStr("Acme")])>> >>

BodyTexts == {BodyTable[i][1] : i \in 1..Len(BodyTable)}

\* JSON.parse(text), and the parse inside response.json().
JSONparse(text) ==
    BodyTable[CHOOSE i \in 1..Len(BodyTable) : BodyTable[i][1] = text][2]

\* The messages of the failures of fetch and of a body read.
TransportMessages == {"Failed to fetch", ""}

SyntaxErrorMessage == "Unexpected token in JSON"

TypeErrorMessage == "Cannot read properties of undefined"

NotAFunctionMessage == "result.data.gstin.substring is not a function"

NoDetailsMessage ==
    "No GST details found for this number or unexpected API response structure."

UnexpectedMessage == "An unexpected error occurred. Please try again later."

---------------------------------------------------------------------------
(* handleSubmit, lines 16-73, in its run-to-completion segments *)

\* `API call failed with status: ${response.status}`, line 46.
GenericMessage(status) == "API call failed with status: " \o ToString(status)

ErrorMessageFor_rawTextFirst(status, text) ==
    IF text # "" THEN text ELSE GenericMessage(status)

\* Lines 45-53: the message thrown for a response that is not ok.  A body
\* that is not JSON makes JSON.parse throw, and the body "null" makes the
\* read of errorJson.message throw; both reach the inner catch.
ErrorMessageFor(status, text) ==
    LET errorJson == JSONparse(text)
        fromText == IF text # "" THEN text ELSE GenericMessage(status)
    IN  IF errorJson.t \in {"syntaxerror", "null"}
          THEN fromText
          ELSE IF Truthy(Get(errorJson, "message"))
                 THEN StringOf(Get(errorJson, "message"))
                 ELSE IF Truthy(Get(errorJson, "error"))
                        THEN StringOf(Get(errorJson, "error"))
                        ELSE GenericMessage(status)

catchMessage_noDefault(m) == m

\* err.message || 'An unexpected error occurred. ...', line 69.
catchMessage(m) == IF m # "" THEN m ELSE UnexpectedMessage

Throw(m) == [kind |-> "throw", msg |-> m, info |-> Null]

\* Lines 59-65 applied to the parsed body of an ok response: the state
\* update it makes, or the message of the TypeError it throws.
ProcessResult(result) ==
    IF ~Truthy(result)
      THEN [kind |-> "setError", msg |-> NoDetailsMessage, info |-> Null]
      ELSE LET data == Get(result, "data")
           IN  IF data.t \in {"null", "undefined"}
                 THEN Throw(TypeErrorMessage)
                 ELSE LET gstin == Get(data, "gstin")
                      IN  IF gstin.t \in {"null", "undefined"}
                            THEN Throw(TypeErrorMessage)
                            ELSE IF gstin.t # "str"
                                   THEN Throw(NotAFunctionMessage)
                                   ELSE LET panNum == substring(gstin.s, 2, 12)
                                            withPan == Put(data, "panNum", JStr(panNum))
                                        IN  [kind |-> "setGstInfo", msg |-> "",
                                             info |-> IF Truthy(withPan)
                                                        THEN withPan
                                                        ELSE Put(result, "data", withPan)]

\* The submit button is disabled={loading}, line 184; a disabled default
\* button also blocks the form's implicit submission.
SubmitAlways == TRUE

SubmitEnabled == ~loading

NoLast == [kind |-> "none", input |-> <<>>, status |-> 0, text |-> ""]

Without(q, i) == SubSeq(q, 1, i - 1) \o SubSeq(q, i + 1, Len(q))

\* The end of an invocation of handleSubmit that was suspended: the state
\* it leaves, with `l` the value of loading after the finally block.
Complete(i, info, err, l, rec) ==
    /\ gstInfo' = info
    /\ error' = err
    /\ loading' = l
    /\ pending' = Without(pending, i)
    /\ last' = rec
    /\ UNCHANGED gstNumber

TypeOk ==
    /\ gstNumber \in Inputs
    /\ loading \in BOOLEAN
    /\ gstInfo.t \in {"null", "obj"}
    /\ Len(pending) <= MaxPending
    /\ \A i \in 1..Len(pending) : pending[i].pc \in {"fetch", "text", "json"}
    /\ last.kind \in {"none", "validation", "fetchRejected", "bodyRejected", "response"}

Init ==
    /\ gstNumber = <<>>
    /\ gstInfo = Null
    /\ loading = FALSE
    /\ error = ""
    /\ pending = <<>>
    /\ last = NoLast

\* Lines 12-14.
handleInputChange ==
    /\ \E v \in Inputs : v # gstNumber /\ gstNumber' = v
    /\ UNCHANGED <<gstInfo, loading, error, pending, last>>

\* Lines 16-41: the reset, the validation and, for a valid input, the call
\* of fetch at which the handler suspends.  `cleared` is the value line 20
\* stores in gstInfo.
handleSubmitWith(cleared) ==
    /\ SubmitEnabled
    /\ Len(pending) < MaxPending
    /\ gstInfo' = cleared
    /\ IF ValidationFails(gstNumber)
         THEN /\ error' = ValidationMessage
              /\ loading' = FALSE
              /\ pending' = pending
              /\ last' = [kind |-> "validation", input |-> gstNumber,
                          status |-> 0, text |-> ""]
         ELSE /\ error' = ""
              /\ loading' = TRUE
              /\ pending' = Append(pending, [pc |-> "fetch", input |-> gstNumber,
                                             url |-> RequestGstin(gstNumber),
                                             status |-> 0, text |-> ""])
              /\ last' = NoLast
    /\ UNCHANGED gstNumber

handleSubmit_keepInfo == handleSubmitWith(gstInfo)

handleSubmit == handleSubmitWith(Null)

\* Line 41: fetch resolves with a response; line 43 chooses the body read
\* the handler suspends at next.  The URL is not read again.
fetchResolves(i) ==
    /\ pending[i].pc = "fetch"
    /\ \E status \in Statuses, text \in BodyTexts :
         pending' = [pending EXCEPT ![i] =
                       [pc |-> IF Ok(status) THEN "json" ELSE "text",
                        input |-> <<>>, url |-> <<>>,
                        status |-> status, text |-> text]]
    /\ UNCHANGED <<gstNumber, gstInfo, loading, error, last>>

fetchRejects_noFinally(i) ==
    /\ pending[i].pc = "fetch"
    /\ \E m \in TransportMessages :
         Complete(i, gstInfo, catchMessage(m), loading,
                  [kind |-> "fetchRejected", input |-> <<>>, status |-> 0, text |-> m])

\* Line 41: fetch rejects (DNS, connection reset, timeout); lines 67-72.
fetchRejects(i) ==
    /\ pending[i].pc = "fetch"
    /\ \E m \in TransportMessages :
         Complete(i, gstInfo, catchMessage(m), FALSE,
                  [kind |-> "fetchRejected", input |-> <<>>, status |-> 0, text |-> m])

\* Lines 45-55 and 67-72: the body of a response that is not ok arrives.
errorBodyArrives(i) ==
    /\ pending[i].pc = "text"
    /\ Complete(i, gstInfo,
                catchMessage(ErrorMessageFor(pending[i].status, pending[i].text)),
                FALSE,
                [kind |-> "response", input |-> <<>>,
                 status |-> pending[i].status, text |-> pending[i].text])

\* Lines 57-72: the body of an ok response arrives; response.json() rejects
\* with a SyntaxError when the body is not JSON.
jsonBodyArrives(i) ==
    /\ pending[i].pc = "json"
    /\ LET result == JSONparse(pending[i].text)
           out == IF result.t = "syntaxerror"
                    THEN Throw(SyntaxErrorMessage)
                    ELSE ProcessResult(result)
           rec == [kind |-> "response", input |-> <<>>,
                   status |-> pending[i].status, text |-> pending[i].text]
       IN  CASE out.kind = "setGstInfo" -> Complete(i, out.info, error, FALSE, rec)
             [] out.kind = "setError" -> Complete(i, gstInfo, out.msg, FALSE, rec)
             [] OTHER -> Complete(i, gstInfo, catchMessage(out.msg), FALSE, rec)

\* Lines 45 and 57: the body read rejects (the connection fails while the
\* body is read); lines 67-72.
bodyRejects(i) ==
    /\ pending[i].pc \in {"text", "json"}
    /\ \E m \in TransportMessages :
         Complete(i, gstInfo, catchMessage(m), FALSE,
                  [kind |-> "bodyRejected", input |-> <<>>,
                   status |-> pending[i].status, text |-> m])

\* A promise the handler awaits settles.
Settles ==
    \E i \in 1..Len(pending) :
        \/ fetchResolves(i)
        \/ fetchRejects(i)
        \/ errorBodyArrives(i)
        \/ jsonBodyArrives(i)
        \/ bodyRejects(i)

Next ==
    \/ handleInputChange
    \/ handleSubmit
    \/ \E i \in 1..Len(pending) : fetchResolves(i)
    \/ \E i \in 1..Len(pending) : fetchRejects(i)
    \/ \E i \in 1..Len(pending) : errorBodyArrives(i)
    \/ \E i \in 1..Len(pending) : jsonBodyArrives(i)
    \/ \E i \in 1..Len(pending) : bodyRejects(i)

Spec == Init /\ [][Next]_vars

\* Every promise the handler awaits settles.
FairSpec == Spec /\ WF_vars(Settles)

---------------------------------------------------------------------------
(* What the component renders, lines 182-262 *)

\* {error && ...}, line 203.
showError == error # ""

\* {gstInfo && Object.keys(gstInfo).length > 0 && ...}, line 209.
showDetails == gstInfo.t = "obj" /\ KeyCount(gstInfo) > 0

\* {gstInfo && Object.keys(gstInfo).length === 0 && !loading && !error && ...},
\* line 258.
showEmptyNotice ==
    gstInfo.t = "obj" /\ KeyCount(gstInfo) = 0 /\ ~loading /\ error = ""

---------------------------------------------------------------------------
(* Vocabulary of the properties, stated without the handler's operators *)

\* Upper-casing, as a relation between the two alphabets.
CasePairs == {<<LowerSeq[i], UpperSeq[i]>> : i \in 1..Len(LowerSeq)}

UppercasedChar(c) ==
    IF \E p \in CasePairs : p[1] = c
      THEN <<(CHOOSE p \in CasePairs : p[1] = c)[2]>>
      ELSE IF c = "sz" THEN <<"S", "S">> ELSE <<c>>

RECURSIVE Uppercased(_)
Uppercased(s) ==
    IF Len(s) = 0 THEN s
    ELSE Uppercased(SubSeq(s, 1, Len(s) - 1)) \o UppercasedChar(s[Len(s)])

IsDigits(s, from, to) == \A i \in from..to : s[i] \in Digit

IsLetters(s, from, to) == \A i \in from..to : s[i] \in Upper

\* 2 digits, 5 letters, 4 digits, 1 letter, an entity code out of `entity`,
\* the literal Z, 1 alphanumeric: 15 characters.
HasGstinShape(s, entity) ==
    /\ Len(s) = 15
    /\ IsDigits(s, 1, 2)
    /\ IsLetters(s, 3, 7)
    /\ IsDigits(s, 8, 11)
    /\ IsLetters(s, 12, 12)
    /\ s[13] \in entity
    /\ s[14] = "Z"
    /\ s[15] \in Digit \cup Upper

EntityOneToNineOrLetter == {"1", "2", "3", "4", "5", "6", "7", "8", "9"} \cup Upper

EntityAnyAlphanumeric == Digit \cup Upper

RequestState ==
    IF loading THEN "loading"
    ELSE IF gstInfo # Null THEN "success"
    ELSE IF error # "" THEN "error"
    ELSE "idle"

AtMostOneActive ==
    /\ ~(loading /\ gstInfo # Null)
    /\ ~(loading /\ error # "")
    /\ ~(gstInfo # Null /\ error # "")

OutcomeChanged == <<loading, gstInfo, error>>' # <<loading, gstInfo, error>>

LastResponse == last.kind = "response"

LastPayload == JSONparse(last.text)

---------------------------------------------------------------------------
(* C1 *)

\* C1: every submit of an input that is empty or that, upper-cased, does not
\* match ^[0-9]{2}[A-Z]{5}[0-9]{4}[A-Z]{1}[1-9A-Z]{1}Z[0-9A-Z]{1}$ ends with
\* a non-empty error message, a null result and loading = false, and issues
\* no request.
C1_InvalidSubmitIssuesNoRequest ==
    [][(handleSubmit
          /\ (gstNumber = <<>>
                \/ ~HasGstinShape(Uppercased(gstNumber), EntityOneToNineOrLetter)))
         => (error' # "" /\ gstInfo' = Null /\ ~loading' /\ pending' = pending)]_vars

\* A submit of a non-empty input of the wrong shape has ended.
C1_Witness ==
    /\ last.kind = "validation"
    /\ last.input # <<>>
    /\ ~HasGstinShape(Uppercased(last.input), EntityOneToNineOrLetter)
    /\ error = ValidationMessage
    /\ pending = <<>>

---------------------------------------------------------------------------
(* C2 *)

\* C2: at most one lookup is in flight, and while one is pending no submit
\* can be taken, so no second request is issued before the first settles.
C2_AtMostOneInFlight ==
    /\ Len(pending) <= 1
    /\ (loading => ~ENABLED handleSubmit)
    /\ (pending # <<>> => loading)

\* A lookup is pending while the text field holds an input that a submit
\* would send.
C2_Witness ==
    /\ loading
    /\ Len(pending) = 1
    /\ HasGstinShape(Uppercased(gstNumber), EntityOneToNineOrLetter)

---------------------------------------------------------------------------
(* C3 *)

ClaimedTransitions ==
    {<<"idle", "loading">>, <<"loading", "success">>, <<"loading", "error">>,
     <<"success", "loading">>, <<"error", "loading">>}

\* C3 as claimed: the request state is exactly one of idle, loading, success
\* and error, and it changes only along idle->loading, loading->success,
\* loading->error, success->loading and error->loading.
C3_Original ==
    /\ []AtMostOneActive
    /\ [][OutcomeChanged => <<RequestState, RequestState'>> \in ClaimedTransitions]_vars

\* C3 as amended: besides the claimed transitions, a submit whose input fails
\* validation takes idle, success or error directly to error, with the
\* validation message, no request and no response.
C3_Amended ==
    /\ []AtMostOneActive
    /\ [][OutcomeChanged =>
            \/ <<RequestState, RequestState'>> \in ClaimedTransitions
            \/ /\ RequestState \in {"idle", "success", "error"}
               /\ RequestState' = "error"
               /\ error' = ValidationMessage
               /\ last'.kind = "validation"
               /\ pending' = pending]_vars

\* The error state has been entered by a validation failure, with nothing
\* in flight.
C3_Witness ==
    /\ RequestState = "error"
    /\ last.kind = "validation"
    /\ pending = <<>>

---------------------------------------------------------------------------
(* C4 *)

\* The payload of an ok response from which lines 59-62 can take a record:
\* an object whose data is an object with a string gstin.
HasRecord(payload) ==
    /\ payload.t = "obj"
    /\ "data" \in DOMAIN payload.f
    /\ payload.f["data"].t = "obj"
    /\ "gstin" \in DOMAIN payload.f["data"].f
    /\ payload.f["data"].f["gstin"].t = "str"

\* The most recent submit failed: in validation, in the transport, with a
\* status that is not 2xx, with a body that cannot be parsed, or with a
\* payload that holds no record.
LastFailed ==
    \/ last.kind \in {"validation", "fetchRejected", "bodyRejected"}
    \/ /\ LastResponse
       /\ \/ last.status < 200
          \/ last.status > 299
          \/ LastPayload.t = "syntaxerror"
          \/ ~HasRecord(LastPayload)

\* C4: when the awaited promises settle, every submit leaves the loading
\* state; after a failure of any kind loading is false, the error message is
\* not empty, and a further submit can be taken.
C4_SubmitAlwaysSettles ==
    /\ loading ~> ~loading
    /\ [](LastFailed => (~loading /\ error # "" /\ ENABLED handleSubmit))

\* A submit has failed in the transport and the form is usable again.
C4_Witness ==
    /\ last.kind = "fetchRejected"
    /\ ~loading
    /\ error # ""

---------------------------------------------------------------------------
(* C5 *)

\* The stored result is `record` with the derived panNum merged into it.
IsRecordWithPan(info, record) ==
    /\ info.t = "obj"
    /\ record.t = "obj"
    /\ DOMAIN info.f = DOMAIN record.f \cup {"panNum"}
    /\ \A k \in DOMAIN record.f \ {"panNum"} : info.f[k] = record.f[k]

\* C5 as claimed: after a 2xx response with a truthy parsed payload the
\* submit is in the success state, the result being the payload's data
\* sub-object when data is present and the whole payload when it is absent;
\* after a falsy payload it is in the error state with the 'no details
\* found' message.  (Stated for the payloads that are JSON objects or falsy.)
C5_Claim ==
    (LastResponse /\ Ok(last.status) /\ LastPayload.t \in {"obj", "null", "num"}
       /\ (LastPayload.t = "num" => LastPayload.n = 0)) =>
        IF Truthy(LastPayload)
          THEN /\ RequestState = "success"
               /\ IF LastPayload.t = "obj" /\ "data" \in DOMAIN LastPayload.f
                       /\ LastPayload.f["data"].t = "obj"
                    THEN IsRecordWithPan(gstInfo, LastPayload.f["data"])
                    ELSE IsRecordWithPan(gstInfo, LastPayload)
          ELSE /\ RequestState = "error"
               /\ error = NoDetailsMessage

---------------------------------------------------------------------------
(* C6 *)

\* The text of the field `k` of the JSON body, "" when the body is no JSON
\* object or the field is absent or empty.
FieldText(payload, k) ==
    IF payload.t = "obj" /\ k \in DOMAIN payload.f
      THEN LET v == payload.f[k]
           IN  IF v.t = "str" THEN v.s
               ELSE IF v.t = "num" /\ v.n # 0 THEN ToString(v.n)
               ELSE ""
      ELSE ""

Extracted(payload) ==
    IF FieldText(payload, "message") # ""
      THEN FieldText(payload, "message")
      ELSE FieldText(payload, "error")

Generic(status) ==
    CASE status = 404 -> "API call failed with status: 404"
      [] status = 500 -> "API call failed with status: 500"
      [] OTHER -> "API call failed with status: other"

LastNotOk == LastResponse /\ ~(last.status \in 200..299)

\* The part of the chain the claim and the code agree on: the message
\* field, else the error field, and the raw text of a body that is not JSON.
ChainOfFields ==
    /\ RequestState = "error"
    /\ Extracted(LastPayload) # "" => error = Extracted(LastPayload)
    /\ (LastPayload.t = "syntaxerror" /\ last.text # "") => error = last.text

\* C6 as claimed: after a non-2xx response the message is the body's message
\* field, else its error field, else (body not JSON) the raw text, and the
\* generic text only when the extracted field and the raw text are both
\* empty.  (Stated for the bodies that are JSON objects or not JSON.)
C6_Original ==
    (LastNotOk /\ LastPayload.t \in {"obj", "syntaxerror"}) =>
        /\ ChainOfFields
        /\ error = Generic(last.status) =>
              (Extracted(LastPayload) = "" /\ last.text = "")

\* C6 as amended: the raw text is the fallback only for a body that is not
\* parseable JSON (or is the JSON null); the generic text is used when the
\* body is empty, and also when the body is JSON other than null that has
\* neither a non-empty message nor a non-empty error field.
C6_Amended ==
    LastNotOk =>
        /\ ChainOfFields
        /\ error = Generic(last.status) <=>
              \/ last.text = ""
              \/ /\ LastPayload.t \notin {"syntaxerror", "null"}
                 /\ Extracted(LastPayload) = ""
        /\ (LastPayload.t = "null" => error = last.text)

\* The two examples of the claim have happened.
C6_Witness ==
    /\ LastResponse
    /\ \/ /\ last.status = 404
          /\ last.text = "{\"message\":\"not found\"}"
          /\ error = "not found"
       \/ /\ last.status = 500
          /\ last.text = "Internal error"
          /\ error = "Internal error"

---------------------------------------------------------------------------
(* C7 *)

\* The record a 2xx payload carries: its data sub-object, else the payload.
RecordOf(payload) ==
    IF payload.t = "obj" /\ "data" \in DOMAIN payload.f /\ payload.f["data"].t = "obj"
      THEN payload.f["data"]
      ELSE payload

\* C7 as claimed: after a 2xx response whose record has zero keys the error
\* message is empty and the result is a non-null record with zero keys, the
\* state in which the 'no specific details found' notice is rendered.
C7_Claim ==
    (LastResponse /\ Ok(last.status) /\ LastPayload.t = "obj"
       /\ RecordOf(LastPayload) = EmptyObject) =>
        /\ error = ""
        /\ gstInfo # Null
        /\ KeyCount(gstInfo) = 0
        /\ showEmptyNotice

---------------------------------------------------------------------------
(* C8 *)

\* The characters at the 0-based positions 2 through 11.
PositionsTwoToEleven(g) == [i \in 1..10 |-> g[i + 2]]

\* C8: after a successful lookup whose raw record has a gstin of at least 12
\* characters, the stored result has panNum equal to the 10 characters at
\* positions 2 through 11 of gstin, every other field of the raw record is
\* in the stored result with its value unchanged, and no field is missing.
C8_PanNumMergedOthersUnchanged ==
    (LastResponse /\ Ok(last.status) /\ HasRecord(LastPayload)
       /\ Len(LastPayload.f["data"].f["gstin"].s) >= 12) =>
        LET raw == LastPayload.f["data"]
        IN  /\ RequestState = "success"
            /\ "panNum" \in DOMAIN gstInfo.f
            /\ gstInfo.f["panNum"] = JStr(PositionsTwoToEleven(raw.f["gstin"].s))
            /\ \A k \in DOMAIN raw.f \ {"panNum"} :
                  k \in DOMAIN gstInfo.f /\ gstInfo.f[k] = raw.f[k]
            /\ DOMAIN gstInfo.f = DOMAIN raw.f \cup {"panNum"}

\* The example of the claim has happened: 27ABCDE1234F1Z5 gave ABCDE1234F,
\* beside the untouched legal_name.
C8_Witness ==
    /\ LastResponse
    /\ last.status = 200
    /\ gstInfo.t = "obj"
    /\ DOMAIN gstInfo.f = {"gstin", "legal_name", "panNum"}
    /\ gstInfo.f["gstin"] = JStr(SampleGstin)
    /\ gstInfo.f["legal_name"] = JStr("Acme")
    /\ gstInfo.f["panNum"] = JStr(<<"A", "B", "C", "D", "E", "1", "2", "3", "4", "F">>)

---------------------------------------------------------------------------
(* C9 *)

\* The validator's verdicts agree with the shape whose entity code is drawn
\* from `entity`, and what is transmitted is the upper-cased input.
VerdictsFollowShape(entity) ==
    /\ last.kind = "validation" =>
          ~HasGstinShape(Uppercased(last.input), entity)
    /\ \A i \in 1..Len(pending) :
          pending[i].pc = "fetch" =>
             /\ HasGstinShape(Uppercased(pending[i].input), entity)
             /\ pending[i].url = Uppercased(pending[i].input)

\* C9 as claimed: an input is accepted if and only if, upper-cased, it is 2
\* digits, 5 letters, 4 digits, 1 letter, 1 entity code out of 0-9 and A-Z,
\* the literal Z and 1 alphanumeric; the request carries the upper-cased
\* input.
C9_Original == VerdictsFollowShape(EntityAnyAlphanumeric)

\* C9 as amended: the entity code is one of 1-9 and A-Z; 0 is not accepted.
C9_Amended == VerdictsFollowShape(EntityOneToNineOrLetter)

\* The lower-case spelling of the sample was accepted and is being
\* transmitted in upper case.
C9_Witness ==
    \E i \in 1..Len(pending) :
        /\ pending[i].pc = "fetch"
        /\ pending[i].input =
             <<"2", "7", "a", "b", "c", "d", "e", "1", "2", "3", "4", "f", "1", "z", "5">>
        /\ pending[i].url = SampleGstin

---------------------------------------------------------------------------
(* C10 *)

\* C10: the result and the error are never both set; while loading the
\* result is null and the error is empty; after a submit has completed
\* exactly one of them is set.
C10_ResultXorError ==
    /\ ~(gstInfo # Null /\ error # "")
    /\ loading => (gstInfo = Null /\ error = "")
    /\ (~loading /\ last.kind # "none") => ((gstInfo # Null) # (error # ""))

\* A lookup is under way with the previous outcome cleared.
C10_Witness ==
    /\ loading
    /\ pending # <<>>
    /\ gstInfo = Null
    /\ error = ""

====
